---- MODULE Spec2Model ----
(***************************************************************************)
(* A model of git-repos.py: the notebook byte counter                      *)
(* (count_jupyter_bytes), the aggregation pass (Repos.__init__, Repo,      *)
(* Gist, LangStat, Repos.markdown_table) and the README splice of main.    *)
(*                                                                         *)
(* Text is a sequence of tokens.  The tokens "#", " ", "\n" and "\r" are   *)
(* single characters; every other token is a run of characters that holds *)
(* none of "#", "\n", "\r" and does not begin with " ", so that splitting  *)
(* into lines and str.startswith("## ") are exact.  A Python str is a      *)
(* token sequence, '' is <<>>, and a list of str is a sequence of them.    *)
(***************************************************************************)
EXTENDS Integers, Sequences, FiniteSets, TLC

VARIABLES
    \* Repos.__init__ / Repos.markdown_table
    pc,               \* position in the aggregation pass
    include_private,  \* the include_private argument
    now,              \* the clock, in ticks: the last datetime.datetime.now()
    seen,             \* the repositories fetched so far from get_repos()
    read_at,          \* the clock reading of each iteration, in step with seen
    language_data,    \* name of statistic -> Counter (insertion-ordered items)
    repos,            \* self.repos: status -> list of Repo
    gseen,            \* the gists fetched so far from get_gists()
    gists,            \* self.gists
    plots,            \* what make_plot handed to plotly, per statistic
    table,            \* the value of the markdown_table property
    \* count_jupyter_bytes
    wpc,              \* position in count_jupyter_bytes
    tree,             \* gh_repo.get_contents(""), the root listing
    contents,         \* the local worklist
    bytes_count,      \* the local accumulator / the returned value
    \* main, the README splice
    spc,              \* position in main
    doc0,             \* README.md as it was before the first run
    file,             \* README.md on disk
    fpos,             \* read position of the open file (1-based)
    head,             \* list of lines kept from before the marker
    line,             \* the local variable line
    tail,             \* list of lines kept from the next heading on
    projects,         \* projects.markdown_table of this run
    run,              \* which run of the script this is
    out1              \* README.md as the first run left it

aggVars == <<pc, include_private, now, seen, read_at, language_data, repos, gseen, gists, plots, table>>
walkVars == <<wpc, tree, contents, bytes_count>>
spliceVars == <<spc, doc0, file, fpos, head, line, tail, projects, run, out1>>
vars == <<aggVars, walkVars, spliceVars>>

----------------------------------------------------------------------------
(* Bounds of the model *)

\* ticks (clock readings) per day: datetimes are finer than dates
TicksPerDay == 2
\* repositories fetched from get_repos() in one pass
MaxRepos == 2
\* gists fetched from get_gists() in one pass
MaxGists == 2
\* entries of one directory listing
MaxEntries == 2
\* directories nested inside directories, below the root listing
MaxDepth == 2
\* lines of README.md before the first run
MaxLines == 4
\* length head may reach while main appends '' at end of file
MaxHead == 6

----------------------------------------------------------------------------
(* Sequences and text *)

Range(s) == {s[i] : i \in DOMAIN s}

SeqsUpTo(S, n) == UNION {[1..k -> S] : k \in 0..n}

NonEmptySeqsUpTo(S, n) == UNION {[1..k -> S] : k \in 1..n}

\* ''.join(list): what file.writelines(list) writes
RECURSIVE Concat(_)
Concat(list) ==
    IF list = <<>> THEN <<>> ELSE Head(list) \o Concat(Tail(list))

\* str.startswith
StartsWith(s, prefix) ==
    /\ Len(s) >= Len(prefix)
    /\ SubSeq(s, 1, Len(prefix)) = prefix

\* str.endswith
EndsWith(s, suffix) ==
    /\ Len(s) >= Len(suffix)
    /\ SubSeq(s, Len(s) - Len(suffix) + 1, Len(s)) = suffix

\* sum of a sequence of numbers
RECURSIVE SumSeq(_)
SumSeq(s) == IF s = <<>> THEN 0 ELSE Head(s) + SumSeq(Tail(s))

----------------------------------------------------------------------------
(* count_jupyter_bytes *)

\* the value that stands for "raises UnicodeEncodeError": str.encode('utf-8')
\* refuses the surrogate code points 0xD800..0xDFFF
UnicodeEncodeError == -1

IsSurrogate(cp) == cp >= 55296 /\ cp <= 57343

\* len(chr(cp).encode('utf-8'))
Utf8Len(cp) ==
    IF IsSurrogate(cp) THEN UnicodeEncodeError
    ELSE IF cp < 128 THEN 1
    ELSE IF cp < 2048 THEN 2
    ELSE IF cp < 65536 THEN 3
    ELSE 4

\* len(line.encode('utf-8')), a line being a sequence of code points
LineBytes(l) ==
    IF \E i \in DOMAIN l : IsSurrogate(l[i]) THEN UnicodeEncodeError
    ELSE SumSeq([i \in DOMAIN l |-> Utf8Len(l[i])])

\* "for line in cell['source']: bytes_count += ...", from the count n
RECURSIVE SourceBytes(_, _)
SourceBytes(source, n) ==
    IF source = <<>> THEN n
    ELSE IF LineBytes(Head(source)) = UnicodeEncodeError THEN UnicodeEncodeError
    ELSE SourceBytes(Tail(source), n + LineBytes(Head(source)))

\* the loop over jsondict['cells'], from the count n; the first line that
\* cannot be encoded ends it with the exception
RECURSIVE CellsBytes(_, _)
CellsBytes(cells, n) ==
    IF cells = <<>> THEN n
    ELSE LET cell == Head(cells)
             m == IF cell.cell_type = "code" THEN SourceBytes(cell.source, n) ELSE n
         IN  IF m = UnicodeEncodeError THEN UnicodeEncodeError
             ELSE CellsBytes(Tail(cells), m)

\* what one notebook adds to bytes_count, or UnicodeEncodeError
NotebookBytes(cells) == CellsBytes(cells, 0)

\* the count reached, from n, when a line of the source raises
RECURSIVE SourceBefore(_, _)
SourceBefore(source, n) ==
    IF source = <<>> \/ LineBytes(Head(source)) = UnicodeEncodeError THEN n
    ELSE SourceBefore(Tail(source), n + LineBytes(Head(source)))

\* the count reached, from n, when a line of the notebook raises
RECURSIVE CellsBefore(_, _)
CellsBefore(cells, n) ==
    IF cells = <<>> THEN n
    ELSE LET cell == Head(cells)
         IN  IF cell.cell_type # "code" THEN CellsBefore(Tail(cells), n)
             ELSE IF SourceBytes(cell.source, n) = UnicodeEncodeError
             THEN SourceBefore(cell.source, n)
             ELSE CellsBefore(Tail(cells), SourceBytes(cell.source, n))

IPYNB == <<".", "ipynb">>

\* the loop condition
WalkContinues(cs) == Len(cs) > 1

\* one iteration of the while loop, on the pair (contents, bytes_count)
WalkStep(cs, n) ==
    LET file_content == Head(cs)
        rest == Tail(cs)
    IN  IF file_content.type = "dir"
        THEN [contents |-> rest \o file_content.children, bytes_count |-> n]
        ELSE IF EndsWith(file_content.name, IPYNB)
        THEN [contents |-> rest,
              bytes_count |-> IF NotebookBytes(file_content.content) = UnicodeEncodeError
                              THEN UnicodeEncodeError
                              ELSE n + NotebookBytes(file_content.content)]
        ELSE [contents |-> rest, bytes_count |-> n]

RECURSIVE WalkLoop(_, _)
WalkLoop(cs, n) ==
    IF n = UnicodeEncodeError THEN UnicodeEncodeError
    ELSE IF WalkContinues(cs)
    THEN LET s == WalkStep(cs, n) IN WalkLoop(s.contents, s.bytes_count)
    ELSE n

\* count_jupyter_bytes(gh_repo), gh_repo given by its root listing: the
\* count, or UnicodeEncodeError when the exception leaves the function
count_jupyter_bytes(root) == WalkLoop(root, 0)

\* --- the code as steps

WalkIdle ==
    /\ wpc = "idle" /\ tree = <<>> /\ contents = <<>> /\ bytes_count = 0

WalkDir ==
    /\ wpc = "loop"
    /\ WalkContinues(contents)
    /\ Head(contents).type = "dir"
    /\ contents' = WalkStep(contents, bytes_count).contents
    /\ bytes_count' = WalkStep(contents, bytes_count).bytes_count
    /\ UNCHANGED <<wpc, tree, aggVars, spliceVars>>

WalkNotebook ==
    /\ wpc = "loop"
    /\ WalkContinues(contents)
    /\ Head(contents).type # "dir"
    /\ EndsWith(Head(contents).name, IPYNB)
    /\ NotebookBytes(Head(contents).content) # UnicodeEncodeError
    /\ contents' = WalkStep(contents, bytes_count).contents
    /\ bytes_count' = WalkStep(contents, bytes_count).bytes_count
    /\ UNCHANGED <<wpc, tree, aggVars, spliceVars>>

\* a line of a code cell cannot be encoded: the exception leaves the
\* function, which returns nothing (the entry was popped, the lines before
\* the bad one were added to the local count)
WalkRaises ==
    /\ wpc = "loop"
    /\ WalkContinues(contents)
    /\ Head(contents).type # "dir"
    /\ EndsWith(Head(contents).name, IPYNB)
    /\ NotebookBytes(Head(contents).content) = UnicodeEncodeError
    /\ contents' = Tail(contents)
    /\ bytes_count' = CellsBefore(Head(contents).content, bytes_count)
    /\ wpc' = "raised"
    /\ UNCHANGED <<tree, aggVars, spliceVars>>

WalkOther ==
    /\ wpc = "loop"
    /\ WalkContinues(contents)
    /\ Head(contents).type # "dir"
    /\ ~EndsWith(Head(contents).name, IPYNB)
    /\ contents' = WalkStep(contents, bytes_count).contents
    /\ bytes_count' = WalkStep(contents, bytes_count).bytes_count
    /\ UNCHANGED <<wpc, tree, aggVars, spliceVars>>

WalkReturn ==
    /\ wpc = "loop"
    /\ ~WalkContinues(contents)
    /\ wpc' = "returned"
    /\ UNCHANGED <<tree, contents, bytes_count, aggVars, spliceVars>>

\* --- repository trees

\* "ab", "e-acute", "euro sign + newline": 2, 2 and 4 bytes
LineAscii == <<97, 98>>
LineLatin == <<233>>
LineEuro == <<8364, 10>>
\* 37 ASCII characters
Line37 == [i \in 1..37 |-> 120]

MarkdownCell == [cell_type |-> "markdown", source |-> <<LineAscii, LineEuro>>]
CodeCell37 == [cell_type |-> "code", source |-> <<Line37>>]
CodeCell6 == [cell_type |-> "code", source |-> <<LineLatin, LineEuro>>]

Notebook37 == <<MarkdownCell, CodeCell37>>
Notebook6 == <<CodeCell6>>

\* "a" and a lone surrogate, as json.loads gives for "a\ud800"
LineSurrogate == <<97, 55296>>
CodeCellBad == [cell_type |-> "code", source |-> <<LineAscii, LineSurrogate, LineLatin>>]
NotebookBad == <<CodeCell6, CodeCellBad>>

FileEntry(name, content) ==
    [type |-> "file", name |-> name, content |-> content, children |-> <<>>]

DirEntry(name, children) ==
    [type |-> "dir", name |-> name, content |-> <<>>, children |-> children]

\* a.ipynb, a notebook with a line that cannot be encoded, and a file that
\* is no notebook whatever it holds
Files ==
    { FileEntry(<<"a", ".", "ipynb">>, Notebook37),
      FileEntry(<<"b", ".", "ipynb">>, NotebookBad),
      FileEntry(<<"c", ".", "py">>, Notebook6) }

RECURSIVE Entries(_)
Entries(depth) ==
    IF depth = 0 THEN Files
    ELSE Files \cup
         { DirEntry(<<"d">>, l) : l \in NonEmptySeqsUpTo(Entries(depth - 1), MaxEntries) }

Trees == NonEmptySeqsUpTo(Entries(MaxDepth), MaxEntries)

InitWalk ==
    /\ wpc = "loop"
    /\ tree \in Trees
    /\ contents = tree
    /\ bytes_count = 0

----------------------------------------------------------------------------
(* LangStat: a collections.Counter is its items in insertion order *)

StatNames == {"all_bytes", "all_repos", "top_bytes", "top_repos"}

\* counter[key], 0 for a missing key
CounterGet(counter, key) ==
    IF \E i \in DOMAIN counter : counter[i].key = key
    THEN (CHOOSE it \in Range(counter) : it.key = key).count
    ELSE 0

\* an add that overwrites the count of a key it already holds
LangStatAddOverwrites(counter, key, value) ==
    IF \E i \in DOMAIN counter : counter[i].key = key
    THEN [i \in DOMAIN counter |->
            IF counter[i].key = key
            THEN [key |-> key, count |-> value]
            ELSE counter[i]]
    ELSE Append(counter, [key |-> key, count |-> value])

\* LangStat.add: self.counter[key] += value
LangStatAdd(counter, key, value) ==
    IF \E i \in DOMAIN counter : counter[i].key = key
    THEN [i \in DOMAIN counter |->
            IF counter[i].key = key
            THEN [key |-> key, count |-> counter[i].count + value]
            ELSE counter[i]]
    ELSE Append(counter, [key |-> key, count |-> value])

\* LangStat.update: self.counter.update(iterable) counts each element once
RECURSIVE LangStatUpdate(_, _)
LangStatUpdate(counter, iterable) ==
    IF iterable = <<>> THEN counter
    ELSE LangStatUpdate(LangStatAdd(counter, Head(iterable), 1), Tail(iterable))

\* a descending sort that is not stable: equal keys end up reversed
RECURSIVE SortDescUnstable(_)
SortDescUnstable(pairs) ==
    IF pairs = <<>> THEN <<>>
    ELSE LET sorted == SortDescUnstable(SubSeq(pairs, 1, Len(pairs) - 1))
             e == pairs[Len(pairs)]
             before == Cardinality({i \in DOMAIN sorted : sorted[i].key > e.key})
         IN  SubSeq(sorted, 1, before) \o <<e>> \o SubSeq(sorted, before + 1, Len(sorted))

\* list.sort(reverse=True, key=...) and sorted(..., reverse=True): a stable
\* sort, on a sequence of [key, val] pairs; equal keys keep their order
RECURSIVE SortDesc(_)
SortDesc(pairs) ==
    IF pairs = <<>> THEN <<>>
    ELSE LET sorted == SortDesc(SubSeq(pairs, 1, Len(pairs) - 1))
             e == pairs[Len(pairs)]
             before == Cardinality({i \in DOMAIN sorted : sorted[i].key >= e.key})
         IN  SubSeq(sorted, 1, before) \o <<e>> \o SubSeq(sorted, before + 1, Len(sorted))

\* Counter.most_common(): items by descending count
MostCommon(counter) ==
    LET pairs == [i \in DOMAIN counter |-> [key |-> counter[i].count, val |-> counter[i]]]
        sorted == SortDesc(pairs)
    IN  [i \in DOMAIN sorted |-> sorted[i].val]

\* LangStat.make_plot: the x and y handed to plotly.graph_objs.Bar
MakePlot(counter) ==
    LET tuples == MostCommon(counter)
    IN  [x |-> [i \in DOMAIN tuples |-> tuples[i].key],
         y |-> [i \in DOMAIN tuples |-> tuples[i].count]]

----------------------------------------------------------------------------
(* Repo and Gist *)

SixMonthsDays == 182

\* Repo.six_months = datetime.timedelta(days=182), in ticks
six_months == SixMonthsDays * TicksPerDay

status_options == <<"Current", "Stale", "Archive">>

\* updated_at.strftime("%Y-%m-%d"): the date of a datetime, as a day number
\* (the text orders as the day number does)
StrfDate(t) == t \div TicksPerDay

\* ', '.join(keys)
RECURSIVE JoinComma(_)
JoinComma(keys) ==
    IF keys = <<>> THEN <<>>
    ELSE IF Len(keys) = 1 THEN <<keys[1]>>
    ELSE <<keys[1], ",", " ">> \o JoinComma(Tail(keys))

\* f"[{text}]({url})"
Link(text, url) == <<"[">> \o text \o <<"]", "(">> \o url \o <<")">>

\* the keys of a language mapping (a dict keeps insertion order)
Keys(languages) == [i \in DOMAIN languages |-> languages[i].lang]

\* the classification with the age compared by >=
RepoStatusAtLeast(archived, updated_at, t) ==
    IF archived THEN "Archive"
    ELSE IF (t - updated_at) >= six_months THEN "Stale"
    ELSE "Current"

\* the if / elif / else of Repo.__init__
RepoStatus(archived, updated_at, t) ==
    IF archived THEN "Archive"
    ELSE IF (t - updated_at) > six_months THEN "Stale"
    ELSE "Current"

\* Repo.__init__
Repo(repo, t) ==
    [owner |-> Link(<<repo.owner>>, <<"url", repo.owner>>),
     name |-> Link(<<repo.name>>, <<"url", repo.name>>),
     description |-> repo.description,
     languages |-> JoinComma(Keys(repo.languages)),
     status |-> RepoStatus(repo.archived, repo.updated_at, t),
     last_modified |-> StrfDate(repo.updated_at)]

\* Repo.markdown
RepoMarkdown(r) ==
    <<"|", " ">> \o r.name \o <<" ", "|", " ">> \o r.description \o <<" ", "|", " ">>
        \o r.owner \o <<" ", "|", " ">> \o r.languages \o <<" ", "|", "\n">>

\* Gist.__init__
Gist(gist) ==
    [owner |-> Link(<<gist.owner>>, <<"url", gist.owner>>),
     description |-> Link(gist.description, <<"url", gist.name>>),
     last_modified |-> StrfDate(gist.updated_at)]

\* Gist.markdown
GistMarkdown(g) == <<"|", " ">> \o g.description \o <<" ", "|", "\n">>

----------------------------------------------------------------------------
(* Repos.__init__ *)

EnumCap == 5

\* github.get_user(github.get_user().login)
user == "me"

JUPYTER == "Jupyter Notebook"

is_owner(gh_repo) == gh_repo.owner = user

is_contributor(gh_repo) == user \in Range(gh_repo.contributors)

\* max(languages, key=lambda k: languages[k]): the first key of the greatest value
RECURSIVE MaxFrom(_, _)
MaxFrom(best, rest) ==
    IF rest = <<>> THEN best
    ELSE MaxFrom(IF Head(rest).bytes > best.bytes THEN Head(rest) ELSE best, Tail(rest))

\* the same keeping the last key of the greatest value
RECURSIVE MaxFromLast(_, _)
MaxFromLast(best, rest) ==
    IF rest = <<>> THEN best
    ELSE MaxFromLast(IF Head(rest).bytes >= best.bytes THEN Head(rest) ELSE best, Tail(rest))

TopLanguageLast(languages) == MaxFromLast(Head(languages), Tail(languages))

TopLanguage(languages) == MaxFrom(Head(languages), Tail(languages))

\* the for loop over languages.items() on the all_bytes counter
RECURSIVE AddAllBytes(_, _, _)
AddAllBytes(counter, items, gh_repo) ==
    IF items = <<>> THEN counter
    ELSE LET lang == Head(items).lang
             linguist_bytes_count == Head(items).bytes
             bytes_count_ == IF lang = JUPYTER
                             THEN count_jupyter_bytes(gh_repo.tree)
                             ELSE linguist_bytes_count
         IN  IF bytes_count_ = UnicodeEncodeError THEN counter
             ELSE AddAllBytes(LangStatAdd(counter, lang, linguist_bytes_count),
                              Tail(items), gh_repo)

\* the body of "if languages:"
CountLanguages(data, gh_repo) ==
    LET languages == gh_repo.languages
        top_language == TopLanguage(languages)
    IN  [data EXCEPT
            !["all_bytes"] = AddAllBytes(@, languages, gh_repo),
            !["all_repos"] = LangStatUpdate(@, Keys(languages)),
            !["top_repos"] = LangStatAdd(@, top_language.lang, 1),
            !["top_bytes"] = LangStatAdd(@, top_language.lang, top_language.bytes)]

\* "only count repositories the user owns or contributes to"
Counted(gh_repo) == is_owner(gh_repo) \/ is_contributor(gh_repo)

\* the privacy test with the flag tested the wrong way round
ListedInverted(flag, hidden) == flag \/ hidden

\* "respect privacy preference": hidden is gh_repo.private, or not gist.public
Listed(flag, hidden) == flag \/ ~hidden

\* repo_list.sort(reverse = True, key = lambda repo: repo.last_modified)
SortByLastModified(list) ==
    LET pairs == [i \in DOMAIN list |-> [key |-> list[i].last_modified, val |-> list[i]]]
        sorted == SortDesc(pairs)
    IN  [i \in DOMAIN sorted |-> sorted[i].val]

\* count_jupyter_bytes raises inside the loop over languages.items()
NotebookRaises(gh_repo) ==
    /\ \E k \in DOMAIN gh_repo.languages : gh_repo.languages[k].lang = JUPYTER
    /\ count_jupyter_bytes(gh_repo.tree) = UnicodeEncodeError

\* one iteration of "for gh_repo in repos[:5]"; t is what datetime.datetime.now()
\* gives in this iteration, read in Repo.__init__ when a record is built
ProcessRepo(gh_repo, t) ==
    /\ pc = "repos"
    /\ Len(seen) < EnumCap
    /\ Len(seen) < MaxRepos
    /\ t >= now
    /\ seen' = Append(seen, gh_repo)
    /\ IF Counted(gh_repo) /\ NotebookRaises(gh_repo)
       THEN \* the exception ends the pass; the languages before it were added
            /\ language_data' = [language_data EXCEPT
                    !["all_bytes"] = AddAllBytes(@, gh_repo.languages, gh_repo)]
            /\ pc' = "raised"
            /\ t = now
            /\ read_at' = Append(read_at, now)
            /\ UNCHANGED <<repos, now>>
       ELSE IF Counted(gh_repo)
       THEN /\ language_data' = IF gh_repo.languages # <<>>
                                THEN CountLanguages(language_data, gh_repo)
                                ELSE language_data
            /\ IF Listed(include_private, gh_repo.private)
               THEN /\ LET repo == Repo(gh_repo, t)
                       IN  repos' = [repos EXCEPT ![repo.status] = Append(@, repo)]
                    /\ now' = t
                    /\ read_at' = Append(read_at, t)
               ELSE /\ t = now
                    /\ read_at' = Append(read_at, now)
                    /\ UNCHANGED <<repos, now>>
            /\ UNCHANGED pc
       ELSE /\ t = now
            /\ read_at' = Append(read_at, now)
            /\ UNCHANGED <<language_data, repos, now, pc>>
    /\ UNCHANGED <<include_private, gseen, gists, plots, table>>
    /\ UNCHANGED <<walkVars, spliceVars>>

\* the end of the loop: make_plot for every statistic, then the sort of every list
FinishRepos ==
    /\ pc = "repos"
    /\ plots' = [n \in StatNames |-> MakePlot(language_data[n])]
    /\ repos' = [s \in DOMAIN repos |-> SortByLastModified(repos[s])]
    /\ pc' = "gists"
    /\ UNCHANGED <<include_private, now, seen, read_at, language_data, gseen, read_at, gists, table>>
    /\ UNCHANGED <<walkVars, spliceVars>>

\* one iteration of "for gist in github.get_user().get_gists()"
AddGist(gist) ==
    /\ pc = "gists"
    /\ Len(gseen) < MaxGists
    /\ gseen' = Append(gseen, gist)
    /\ gists' = IF Listed(include_private, ~gist.public)
                THEN Append(gists, Gist(gist))
                ELSE gists
    /\ UNCHANGED <<pc, include_private, now, seen, read_at, language_data, repos, plots, table>>
    /\ UNCHANGED <<walkVars, spliceVars>>

\* self.gists.sort(...), the last statement of __init__
SortGists ==
    /\ pc = "gists"
    /\ gists' = SortByLastModified(gists)
    /\ pc' = "constructed"
    /\ UNCHANGED <<include_private, now, seen, read_at, language_data, repos, gseen, read_at, plots, table>>
    /\ UNCHANGED <<walkVars, spliceVars>>

----------------------------------------------------------------------------
(* Repos.markdown_table *)

PROJECTS_HEADER == <<"#", "#", " ", "Projects", "\n">>

\* f"\n### {status}\n| Repository | Description | Owner | Language(s) |\n|---|---|---|---|\n"
StatusHeader(status) ==
    <<"\n", "#", "#", "#", " ", status, "\n",
      "| Repository | Description | Owner | Language(s) |", "\n",
      "|---|---|---|---|", "\n">>

\* f"\n### Gists\n| Description |\n|---|\n"
GistsHeader ==
    <<"\n", "#", "#", "#", " ", "Gists", "\n", "| Description |", "\n", "|---|", "\n">>

\* the for loop over self.repos, in the order the dict was filled
RECURSIVE StatusSections(_, _)
StatusSections(rs, statuses) ==
    IF statuses = <<>> THEN <<>>
    ELSE LET status == Head(statuses)
         IN  <<StatusHeader(status)>>
                \o [i \in DOMAIN rs[status] |-> RepoMarkdown(rs[status][i])]
                \o StatusSections(rs, Tail(statuses))

markdown_table(rs, gs) ==
    <<PROJECTS_HEADER>>
        \o StatusSections(rs, status_options)
        \o <<GistsHeader>>
        \o [i \in DOMAIN gs |-> GistMarkdown(gs[i])]

\* main reads the property once the Repos object is built
Render ==
    /\ pc = "constructed"
    /\ table' = markdown_table(repos, gists)
    /\ pc' = "rendered"
    /\ UNCHANGED <<include_private, now, seen, read_at, language_data, repos, gseen, read_at, gists, plots>>
    /\ UNCHANGED <<walkVars, spliceVars>>

----------------------------------------------------------------------------
(* main: the splice of README.md *)

\* open('README.md', 'r') reads with universal newlines: a line ends at "\n",
\* at "\r" "\n" or at a lone "\r".  The place of the last token of the line
\* that starts at i.
RECURSIVE LineEnd(_, _)
LineEnd(f, i) ==
    IF i >= Len(f) THEN Len(f)
    ELSE IF f[i] = "\n" THEN i
    ELSE IF f[i] = "\r" THEN (IF f[i + 1] = "\n" THEN i + 1 ELSE i)
    ELSE LineEnd(f, i + 1)

\* how far the read position moves over the line that starts at pos
RawLen(f, pos) == IF pos > Len(f) THEN 0 ELSE LineEnd(f, pos) - pos + 1

\* the line ending as the reader hands it over: always "\n"
Translate(l) ==
    IF Len(l) >= 2 /\ l[Len(l) - 1] = "\r" /\ l[Len(l)] = "\n"
    THEN SubSeq(l, 1, Len(l) - 2) \o <<"\n">>
    ELSE IF Len(l) >= 1 /\ l[Len(l)] = "\r"
    THEN SubSeq(l, 1, Len(l) - 1) \o <<"\n">>
    ELSE l

\* file.readline() at read position pos: '' at end of file
ReadLine(f, pos) ==
    IF pos > Len(f) THEN <<>> ELSE Translate(SubSeq(f, pos, LineEnd(f, pos)))

\* "for line in file": the lines left from pos on
RECURSIVE ReadLines(_, _)
ReadLines(f, pos) ==
    IF pos > Len(f) THEN <<>>
    ELSE <<ReadLine(f, pos)>> \o ReadLines(f, pos + RawLen(f, pos))

H2 == <<"#", "#", " ">>

\* the second loop stopping at any heading or blank line
SkipsBodyLineLoose(l) == ~(StartsWith(l, <<"#">>) \/ l = <<"\n">>)

\* the condition of the second while loop
SkipsBodyLine(l) == ~StartsWith(l, H2)

\* head = [file.readline()]; line = file.readline()
ReadFirst ==
    /\ spc = "start"
    /\ LET second == 1 + RawLen(file, 1)
       IN  /\ head' = <<ReadLine(file, 1)>>
           /\ line' = ReadLine(file, second)
           /\ fpos' = second + RawLen(file, second)
    /\ spc' = "find_marker"
    /\ UNCHANGED <<doc0, file, tail, projects, run, out1>>
    /\ UNCHANGED <<aggVars, walkVars>>

\* one iteration of "while line != PROJECTS_HEADER"; at end of file line is ''
\* and the loop goes on appending it (up to MaxHead elements here)
FindMarker ==
    /\ spc = "find_marker"
    /\ line # PROJECTS_HEADER
    /\ line = <<>> => Len(head) < MaxHead
    /\ head' = Append(head, line)
    /\ line' = ReadLine(file, fpos)
    /\ fpos' = fpos + RawLen(file, fpos)
    /\ UNCHANGED <<spc, doc0, file, tail, projects, run, out1>>
    /\ UNCHANGED <<aggVars, walkVars>>

\* the loop ends: assert line == PROJECTS_HEADER; line = file.readline()
MarkerFound ==
    /\ spc = "find_marker"
    /\ line = PROJECTS_HEADER
    /\ line' = ReadLine(file, fpos)
    /\ fpos' = fpos + RawLen(file, fpos)
    /\ spc' = "skip"
    /\ UNCHANGED <<doc0, file, head, tail, projects, run, out1>>
    /\ UNCHANGED <<aggVars, walkVars>>

\* one iteration of 'while not line.startswith("## ")'
SkipBody ==
    /\ spc = "skip"
    /\ SkipsBodyLine(line)
    /\ line' = ReadLine(file, fpos)
    /\ fpos' = fpos + RawLen(file, fpos)
    /\ UNCHANGED <<spc, doc0, file, head, tail, projects, run, out1>>
    /\ UNCHANGED <<aggVars, walkVars>>

\* tail = ['\n'+line]; for line in file: tail.append(line).  The for loop
\* binds line again: it is left at the last line of the file
CollectTail ==
    /\ spc = "skip"
    /\ ~SkipsBodyLine(line)
    /\ LET rest == ReadLines(file, fpos)
       IN  /\ tail' = <<(<<"\n">> \o line)>> \o rest
           /\ line' = IF rest = <<>> THEN line ELSE rest[Len(rest)]
    /\ fpos' = Len(file) + 1
    /\ spc' = "write"
    /\ UNCHANGED <<doc0, file, head, projects, run, out1>>
    /\ UNCHANGED <<aggVars, walkVars>>

\* the three writelines calls on the file opened with 'w'
WriteBack ==
    /\ spc = "write"
    /\ file' = Concat(head) \o Concat(projects) \o Concat(tail)
    /\ out1' = IF run = 1 THEN file' ELSE out1
    /\ spc' = "done"
    /\ UNCHANGED <<doc0, fpos, head, line, tail, projects, run>>
    /\ UNCHANGED <<aggVars, walkVars>>

\* the script is run again on the file it wrote, and generates the same table
RunAgain ==
    /\ spc = "done"
    /\ run = 1
    /\ run' = 2
    /\ spc' = "start"
    /\ fpos' = 1 /\ head' = <<>> /\ line' = <<>> /\ tail' = <<>>
    /\ UNCHANGED <<doc0, file, projects, out1>>
    /\ UNCHANGED <<aggVars, walkVars>>

----------------------------------------------------------------------------
(* What the API returns *)

\* a clock reading late in a day
BaseTick == TicksPerDay * 400 + (TicksPerDay - 1)

ItemNames == <<"n1", "n2", "n3", "n4", "n5", "n6">>

PlainTree == <<FileEntry(<<"c", ".", "py">>, Notebook6)>>

\* a.ipynb is read, the last entry is not: count_jupyter_bytes gives 37
NotebookTree ==
    <<FileEntry(<<"a", ".", "ipynb">>, Notebook37), FileEntry(<<"c", ".", "py">>, Notebook6)>>

\* the first entry is a notebook with a line that cannot be encoded
BadTree ==
    <<FileEntry(<<"b", ".", "ipynb">>, NotebookBad), FileEntry(<<"c", ".", "py">>, Notebook6)>>

LanguageMaps ==
    { <<>>,
      <<[lang |-> JUPYTER, bytes |-> 50]>>,
      <<[lang |-> "YAML", bytes |-> 100], [lang |-> "Python", bytes |-> 900],
        [lang |-> "Go", bytes |-> 900]>> }

Memberships ==
    { [owner |-> "me", contributors |-> <<>>],
      [owner |-> "org", contributors |-> <<"ann", "me">>],
      [owner |-> "org", contributors |-> <<"ann">>] }

GhRepo(i, m, private, languages, archived, updated_at) ==
    [name |-> ItemNames[i],
     owner |-> m.owner,
     contributors |-> m.contributors,
     description |-> <<"about", ItemNames[i]>>,
     private |-> private,
     languages |-> languages,
     tree |-> IF \E k \in DOMAIN languages : languages[k].lang = JUPYTER
              THEN NotebookTree ELSE PlainTree,
     archived |-> archived,
     updated_at |-> updated_at]

GhGist(i, public, updated_at) ==
    [name |-> ItemNames[i],
     owner |-> user,
     description |-> <<"gist", ItemNames[i]>>,
     public |-> public,
     updated_at |-> updated_at]

\* a repository of the caller on which count_jupyter_bytes raises
RaisingRepo(i) ==
    [GhRepo(i, [owner |-> "me", contributors |-> <<>>], FALSE,
            <<[lang |-> "YAML", bytes |-> 100], [lang |-> JUPYTER, bytes |-> 50]>>,
            FALSE, BaseTick)
     EXCEPT !.tree = BadTree]

\* repositories that differ in membership, privacy and languages
StatsRepos(i) ==
    { GhRepo(i, m, private, languages, FALSE, BaseTick) :
        m \in Memberships, private \in BOOLEAN, languages \in LanguageMaps }
    \cup {RaisingRepo(i)}

StatsGists(i) == { GhGist(i, TRUE, BaseTick) }

\* repositories that differ in the archived flag and in age: exactly six
\* months and one tick more, and two readings of the same recent day
TableRepos(i) ==
    { GhRepo(i, [owner |-> "me", contributors |-> <<"me">>], FALSE,
             <<[lang |-> "Python", bytes |-> 900]>>, archived, updated_at) :
        archived \in {FALSE},
        updated_at \in {BaseTick - six_months - 1, BaseTick - six_months,
                        BaseTick - 1, BaseTick} }
    \cup
    { GhRepo(i, [owner |-> "me", contributors |-> <<"me">>], FALSE,
             <<[lang |-> "Python", bytes |-> 900]>>, TRUE, updated_at) :
        updated_at \in {BaseTick - six_months - 1, BaseTick} }
    \cup {RaisingRepo(i)}

TableGists(i) ==
    { GhGist(i, TRUE, BaseTick - six_months), GhGist(i, TRUE, BaseTick),
      GhGist(i, FALSE, BaseTick) }

AggIdle ==
    /\ pc = "idle" /\ include_private = FALSE /\ now = 0
    /\ seen = <<>> /\ read_at = <<>> /\ gseen = <<>> /\ gists = <<>> /\ table = <<>>
    /\ language_data = [n \in StatNames |-> <<>>]
    /\ repos = [s \in Range(status_options) |-> <<>>]
    /\ plots = [n \in StatNames |-> [x |-> <<>>, y |-> <<>>]]

InitAgg(clock) ==
    /\ pc = "repos"
    /\ include_private \in BOOLEAN
    /\ now \in clock
    /\ seen = <<>> /\ read_at = <<>> /\ gseen = <<>> /\ gists = <<>> /\ table = <<>>
    /\ language_data = [n \in StatNames |-> <<>>]
    /\ repos = [s \in Range(status_options) |-> <<>>]
    /\ plots = [n \in StatNames |-> [x |-> <<>>, y |-> <<>>]]

SpliceIdle ==
    /\ spc = "idle" /\ doc0 = <<>> /\ file = <<>> /\ fpos = 1 /\ head = <<>>
    /\ line = <<>> /\ tail = <<>> /\ projects = <<>> /\ run = 0 /\ out1 = <<>>

----------------------------------------------------------------------------
(* Specifications *)

\* the aggregation pass over repositories of every membership and privacy
Init == InitAgg({BaseTick}) /\ WalkIdle /\ SpliceIdle

Next ==
    \/ \E gh_repo \in StatsRepos(Len(seen) + 1) : ProcessRepo(gh_repo, BaseTick)
    \/ FinishRepos
    \/ \E gist \in StatsGists(Len(gseen) + 1) : AddGist(gist)
    \/ SortGists
    \/ Render

Spec == Init /\ [][Next]_vars

\* the aggregation pass over repositories of every status and age
InitTable == InitAgg({BaseTick}) /\ WalkIdle /\ SpliceIdle

NextTable ==
    \/ \E gh_repo \in TableRepos(Len(seen) + 1) :
          \E t \in {BaseTick, BaseTick + 1} : ProcessRepo(gh_repo, t)
    \/ FinishRepos
    \/ \E gist \in TableGists(Len(gseen) + 1) : AddGist(gist)
    \/ SortGists
    \/ Render

SpecTable == InitTable /\ [][NextTable]_vars

\* count_jupyter_bytes over every tree
InitWalkSpec == InitWalk /\ AggIdle /\ SpliceIdle

NextWalk == WalkDir \/ WalkNotebook \/ WalkRaises \/ WalkOther \/ WalkReturn

SpecWalk == InitWalkSpec /\ [][NextWalk]_vars

\* the README splice over every document
OtherHeading == <<"#", "#", " ", "Other", "\n">>
SubHeading == <<"#", "#", "#", " ", "Sub", "\n">>
BlankLine == <<"\n">>

CrlfMarker == <<"#", "#", " ", "Projects", "\r", "\n">>
CrLine == <<"old", "\r">>

\* lines that end in "\n", in "\r" "\n" or in "\r", and last lines that do not end
FullLines == {PROJECTS_HEADER, OtherHeading, SubHeading, BlankLine, CrlfMarker, CrLine}
LastLines == {<<"#", "#", " ", "Projects">>, <<"#", "#", " ", "Other">>}

Documents ==
    { Concat(ls) : ls \in SeqsUpTo(FullLines, MaxLines) }
    \cup
    { Concat(ls) \o l : ls \in SeqsUpTo(FullLines, MaxLines - 1), l \in LastLines }

NoRepos == [s \in Range(status_options) |-> <<>>]

\* the tables of a user with nothing to show, and with a repository and a gist
Tables ==
    { markdown_table(NoRepos, <<>>),
      markdown_table(
        [NoRepos EXCEPT !["Current"] = <<Repo(CHOOSE r \in TableRepos(1) :
                                                r.updated_at = BaseTick /\ ~r.archived,
                                              BaseTick)>>],
        <<Gist(GhGist(1, TRUE, BaseTick))>>) }

InitSplice ==
    /\ spc = "start"
    /\ doc0 \in Documents
    /\ file = doc0
    /\ projects \in Tables
    /\ fpos = 1 /\ head = <<>> /\ line = <<>> /\ tail = <<>>
    /\ run = 1 /\ out1 = <<>>
    /\ AggIdle /\ WalkIdle

NextSplice ==
    \/ ReadFirst
    \/ FindMarker
    \/ MarkerFound
    \/ SkipBody
    \/ CollectTail
    \/ WriteBack
    \/ RunAgain

SpecSplice == InitSplice /\ [][NextSplice]_vars

----------------------------------------------------------------------------
(* Properties.  They are stated from what was fetched (seen, gseen, tree,  *)
(* doc0), not from the operators above.                                    *)

AllLangs == {JUPYTER, "YAML", "Python", "Go"}

\* the identity is the owner or one of the contributors
Member(r) == r.owner = user \/ \E k \in DOMAIN r.contributors : r.contributors[k] = user

HasLang(r, l) == \E k \in DOMAIN r.languages : r.languages[k].lang = l

BytesOf(r, l) == (CHOOSE it \in Range(r.languages) : it.lang = l).bytes

\* the repositories that feed the statistics
InStats(r) == Member(r) /\ r.languages # <<>>

\* the repositories that get a record
InTable(r) == Member(r) /\ (include_private \/ ~r.private)

\* the status the three-way rule gives at clock reading t
RuleStatus(r, t) ==
    CASE r.archived -> "Archive"
      [] ~r.archived /\ t - r.updated_at > 182 * TicksPerDay -> "Stale"
      [] ~r.archived /\ t - r.updated_at <= 182 * TicksPerDay -> "Current"

\* the iteration a record was built in
IndexOf(rec) ==
    CHOOSE i \in DOMAIN seen : Link(<<seen[i].name>>, <<"url", seen[i].name>>) = rec.name

\* the fetched repository a record was built from
RawOf(rec) == seen[IndexOf(rec)]

\* the age of the repository when the record was built
AgeOf(rec) == read_at[IndexOf(rec)] - RawOf(rec).updated_at

\* C1: every record's status is Archive when the repository is archived,
\* whatever its age; otherwise Stale when now - updated_at is strictly more
\* than 182 days; otherwise Current (an age of exactly 182 days is Current).
\* It is one of the three statuses and the record is kept under it.
C1_StatusRule ==
    \A s \in Range(status_options) : \A k \in DOMAIN repos[s] :
        LET rec == repos[s][k]
            raw == RawOf(rec)
            age == AgeOf(rec)
        IN  /\ rec.status = s
            /\ rec.status \in {"Current", "Stale", "Archive"}
            /\ raw.archived => rec.status = "Archive"
            /\ (~raw.archived /\ age > 182 * TicksPerDay) => rec.status = "Stale"
            /\ (~raw.archived /\ age <= 182 * TicksPerDay) => rec.status = "Current"

\* of two repositories updated at the same instant, the one whose record is
\* built at an age of exactly 182 days is Current and the one built a tick
\* later is Stale
C1_Witness ==
    /\ \E k \in DOMAIN repos["Current"] :
          /\ AgeOf(repos["Current"][k]) = 182 * TicksPerDay
          /\ ~RawOf(repos["Current"][k]).archived
    /\ \E k \in DOMAIN repos["Stale"] :
          /\ AgeOf(repos["Stale"][k]) = 182 * TicksPerDay + 1
          /\ RawOf(repos["Stale"][k]).updated_at = RawOf(repos["Current"][1]).updated_at

\* every source line of every code cell of every notebook can be encoded
RECURSIVE TreeEncodable(_)
TreeEncodable(entries) ==
    \A k \in DOMAIN entries :
        IF entries[k].type = "dir" THEN TreeEncodable(entries[k].children)
        ELSE \A c \in DOMAIN entries[k].content :
               \A j \in DOMAIN entries[k].content[c].source :
                 \A x \in DOMAIN entries[k].content[c].source[j] :
                   ~(entries[k].content[c].source[j][x] \in 55296..57343)

\* the code cell bytes of every notebook of a tree
RECURSIVE TreeCodeBytes(_)
TreeCodeBytes(entries) ==
    IF entries = <<>> THEN 0
    ELSE LET e == Head(entries)
         IN  (IF e.type = "dir" THEN TreeCodeBytes(e.children)
              ELSE IF Len(e.name) >= 2 /\ e.name[Len(e.name) - 1] = "."
                      /\ e.name[Len(e.name)] = "ipynb"
              THEN NotebookBytes(e.content)
              ELSE 0) + TreeCodeBytes(Tail(entries))

\* C2: all_bytes of "Jupyter Notebook" is the sum, over the repositories that
\* feed the statistics and list that language, of the bytes of their notebook
\* code cells; all_bytes of any other language is the sum of the raw counts.
C2_NotebookBytesCounted ==
    pc # "raised" => \A l \in AllLangs :
        CounterGet(language_data["all_bytes"], l) =
            SumSeq([i \in DOMAIN seen |->
                      IF InStats(seen[i]) /\ HasLang(seen[i], l)
                      THEN IF l = JUPYTER THEN TreeCodeBytes(seen[i].tree)
                           ELSE BytesOf(seen[i], l)
                      ELSE 0])

\* C3: count_jupyter_bytes returns the code cell bytes of every notebook of
\* the tree, the last entry of the worklist and a root listing of one entry
\* included.
C3_CountsEveryNotebook ==
    (wpc = "returned" /\ TreeEncodable(tree)) => bytes_count = TreeCodeBytes(tree)

\* the lines of a text as the script reads them, each with its newline
DocLines(doc) == ReadLines(doc, 1)

\* the same lines as they stand in the file, line endings untouched
RECURSIVE RawLinesFrom(_, _)
RawLinesFrom(doc, pos) ==
    IF pos > Len(doc) THEN <<>>
    ELSE <<SubSeq(doc, pos, LineEnd(doc, pos))>>
           \o RawLinesFrom(doc, LineEnd(doc, pos) + 1)

IsMarker(l) == l = <<"#", "#", " ", "Projects", "\n">>

IsHeading(l) == Len(l) >= 3 /\ l[1] = "#" /\ l[2] = "#" /\ l[3] = " "

\* a marker line at any position, and a heading line after it
HasSection(doc) ==
    \E m \in DOMAIN DocLines(doc) :
        /\ IsMarker(DocLines(doc)[m])
        /\ \E h \in DOMAIN DocLines(doc) : h > m /\ IsHeading(DocLines(doc)[h])

FirstMarker(ls) == CHOOSE m \in DOMAIN ls :
    IsMarker(ls[m]) /\ \A j \in 1..(m - 1) : ~IsMarker(ls[j])

NextHeading(ls, m) == CHOOSE h \in DOMAIN ls :
    h > m /\ IsHeading(ls[h]) /\ \A j \in (m + 1)..(h - 1) : ~IsHeading(ls[j])

\* C4: when the document has a marker line and a heading after it, the file
\* written is the lines before the marker, the generated table, and the lines
\* from the next heading on, nothing else (the one "\n" the script writes
\* between the table and the heading is counted with the table).
C4_SpliceFrame ==
    (spc = "done" /\ run = 1 /\ HasSection(doc0)) =>
        LET ls == DocLines(doc0)
            raw == RawLinesFrom(doc0, 1)
            m == FirstMarker(ls)
            h == NextHeading(ls, m)
            before == Concat(SubSeq(raw, 1, m - 1))
            after == Concat(SubSeq(raw, h, Len(raw)))
        IN  \/ file = before \o Concat(projects) \o after
            \/ file = before \o Concat(projects) \o <<"\n">> \o after

\* the scan has read '' at end of file inside one of its two loops, which
\* then never ends
ScanStuck == spc \in {"find_marker", "skip"} /\ line = <<>>

\* C5: the scan ends exactly when the document has a marker line (at any
\* position, the first line included) and a heading after it: it never gets
\* stuck on such a document, and it ends on no other.
C5_ScanEndsIffSection ==
    run = 1 =>
        /\ ScanStuck => ~HasSection(doc0)
        /\ spc \in {"write", "done"} => HasSection(doc0)

\* C6: all_repos of a language is the number of fetched repositories that
\* feed the statistics and list it, and no count of any of the four
\* statistics ever decreases.
C6_PresenceAndMonotone ==
    /\ [](pc # "raised" => \A l \in AllLangs :
            CounterGet(language_data["all_repos"], l) =
                Cardinality({i \in DOMAIN seen : InStats(seen[i]) /\ HasLang(seen[i], l)}))
    /\ [][\A n \in StatNames : \A l \in AllLangs :
            CounterGet(language_data'[n], l) >= CounterGet(language_data[n], l)]_vars

\* two repositories with Python were counted, the second on top of the first
C6_Witness ==
    /\ CounterGet(language_data["all_repos"], "Python") = 2
    /\ CounterGet(language_data["all_bytes"], "Python") = 1800
    /\ CounterGet(language_data["top_repos"], "Python") = 2

\* the language of the greatest byte count, the first of them in the mapping
Dominant(r) ==
    LET k == CHOOSE k \in DOMAIN r.languages :
                /\ \A j \in DOMAIN r.languages : r.languages[j].bytes <= r.languages[k].bytes
                /\ \A j \in 1..(k - 1) : r.languages[j].bytes < r.languages[k].bytes
    IN  r.languages[k]

\* C7: top_repos credits each repository that feeds the statistics to one
\* language, the first key of the greatest byte count, by 1, and top_bytes
\* credits it by that byte count; so top_repos sums to the number of them.
C7_DominantLanguage ==
    pc # "raised" =>
    /\ \A l \in AllLangs :
        /\ CounterGet(language_data["top_repos"], l) =
             Cardinality({i \in DOMAIN seen :
                            InStats(seen[i]) /\ Dominant(seen[i]).lang = l})
        /\ CounterGet(language_data["top_bytes"], l) =
             SumSeq([i \in DOMAIN seen |->
                       IF InStats(seen[i]) /\ Dominant(seen[i]).lang = l
                       THEN Dominant(seen[i]).bytes ELSE 0])
    /\ SumSeq([i \in DOMAIN language_data["top_repos"] |->
                 language_data["top_repos"][i].count])
         = Cardinality({i \in DOMAIN seen : InStats(seen[i])})

\* a mapping whose greatest count is shared, and a mapping of one entry
C7_Witness ==
    /\ \E i \in DOMAIN seen :
          /\ InStats(seen[i])
          /\ Len(seen[i].languages) = 3
          /\ seen[i].languages[2].bytes = seen[i].languages[3].bytes
    /\ \E i \in DOMAIN seen : InStats(seen[i]) /\ Len(seen[i].languages) = 1
    /\ CounterGet(language_data["top_repos"], "Python") = 1
    /\ CounterGet(language_data["top_repos"], JUPYTER) = 1

RecordCount(rs) == SumSeq([k \in DOMAIN status_options |-> Len(rs[status_options[k]])])

HasRow(t, r) ==
    \E k \in DOMAIN t : StartsWith(t[k], <<"|", " ">> \o Link(<<r.name>>, <<"url", r.name>>))

\* C8: a fetched repository changes the statistics exactly when the identity
\* is a member and the language mapping is not empty, whatever its private
\* flag; it gets a record, and a row of the table, exactly when the identity
\* is a member and include_private is set or the repository is not private,
\* whatever its language mapping.
C8_TwoFilters ==
    /\ [][(Len(seen') = Len(seen) + 1 /\ pc' # "raised") =>
            LET r == seen'[Len(seen')]
            IN  /\ language_data' # language_data <=> InStats(r)
                /\ RecordCount(repos') = RecordCount(repos) + 1 <=> InTable(r)
                /\ RecordCount(repos') = RecordCount(repos) <=> ~InTable(r)]_vars
    /\ [](pc = "rendered" =>
            \A i \in DOMAIN seen : HasRow(table, seen[i]) <=> InTable(seen[i]))

\* without include_private, a private repository of the caller is counted and
\* not shown; a public one without languages is shown and not counted
C8_Witness ==
    /\ pc = "rendered"
    /\ ~include_private
    /\ \E i \in DOMAIN seen :
          /\ seen[i].owner = user /\ seen[i].private /\ HasLang(seen[i], "Python")
          /\ ~HasRow(table, seen[i])
          /\ CounterGet(language_data["all_repos"], "Python") = 1
    /\ \E i \in DOMAIN seen :
          /\ Member(seen[i]) /\ ~seen[i].private /\ seen[i].languages = <<>>
          /\ HasRow(table, seen[i])

\* the members of S in non-increasing order of date, equal dates in the
\* order of fetching
Ordered(S, date) ==
    LET rank(i) == 1 + Cardinality({j \in S :
                        date[j] > date[i] \/ (date[j] = date[i] /\ j < i)})
    IN  [k \in 1..Cardinality(S) |-> CHOOSE i \in S : rank(i) = k]

RepoDates == [i \in DOMAIN seen |-> seen[i].updated_at \div TicksPerDay]

GistDates == [i \in DOMAIN gseen |-> gseen[i].updated_at \div TicksPerDay]

RowsOf(status) ==
    LET S == {i \in DOMAIN seen :
                InTable(seen[i]) /\ RuleStatus(seen[i], read_at[i]) = status}
        ord == Ordered(S, RepoDates)
    IN  [k \in DOMAIN ord |-> RepoMarkdown(Repo(seen[ord[k]], read_at[ord[k]]))]

GistRows ==
    LET S == {i \in DOMAIN gseen : include_private \/ gseen[i].public}
        ord == Ordered(S, GistDates)
    IN  [k \in DOMAIN ord |-> GistMarkdown(Gist(gseen[ord[k]]))]

\* C9: the table is the Projects header, the Current, Stale and Archive
\* subsections in that order, each with its column header, then the Gists
\* subsection; every record is one row of the subsection of its status; rows
\* are in non-increasing order of date, equal dates in the order of fetching.
C9_TableLayout ==
    pc = "rendered" =>
        table = <<PROJECTS_HEADER>>
                  \o <<StatusHeader("Current")>> \o RowsOf("Current")
                  \o <<StatusHeader("Stale")>> \o RowsOf("Stale")
                  \o <<StatusHeader("Archive")>> \o RowsOf("Archive")
                  \o <<GistsHeader>> \o GistRows

\* two Current repositories of one date, the second updated later in the
\* day, two gists fetched oldest first, and an empty Stale subsection
C9_Witness ==
    /\ pc = "rendered"
    /\ Len(repos["Current"]) = 2 /\ Len(repos["Stale"]) = 0
    /\ Len(seen) = 2
    /\ seen[1].updated_at < seen[2].updated_at
    /\ RepoDates[1] = RepoDates[2]
    /\ Len(gists) = 2
    /\ GistDates[1] < GistDates[2]

\* C10: a second run on the file the first run wrote, with the same table,
\* writes that file again.
C10_SecondRunSame ==
    (spc = "done" /\ run = 2) => file = out1

\* the second run has ended on a file the first run had changed
C10_Witness ==
    /\ spc = "done" /\ run = 2
    /\ file = out1
    /\ out1 # doc0
    /\ Len(head) >= 2

====
